---- MODULE Spec2Model ----
(***************************************************************************)
(* A model of the image-generation web application:                        *)
(*   src/index.tsx      the browser UI that calls the generative model     *)
(*                      directly (file intake, request builder, response   *)
(*                      relay, result presentation and download);          *)
(*   src/api/upload.js  the server upload handler that relays a multipart  *)
(*                      upload to the generative model.                    *)
(* The two are independent programs (index.tsx never calls the handler);   *)
(* a behaviour of the model runs one of them, chosen by `deployment`.      *)
(* Lines 105-138 of upload.js hold an earlier stub of the handler (a       *)
(* second default export that answers 200 without calling the model); the  *)
(* handler modelled here is the one of lines 1-104.                        *)
(*                                                                         *)
(* Left out, as nothing below reads it: URL.revokeObjectURL on the         *)
(* preview's load (index.tsx:91) and the console output.  A reader that    *)
(* fails in index.tsx resolves nothing (onloadend throws on a null         *)
(* result), which is a conversion that never completes: a behaviour in     *)
(* which ConversionDone is never taken for it.                             *)
(*                                                                         *)
(* Strings are modelled as sequences of tokens, so that template           *)
(* interpolation, concatenation and split(',') are computed, not assumed.  *)
(***************************************************************************)
EXTENDS Naturals, Sequences, FiniteSets, Bags

VARIABLES
  deployment,   \* "direct" (index.tsx) or "relayed" (api/upload.js)
  files,        \* input.files?.[0] of the product and pose file inputs
  preview,      \* the preview <img> and its placeholder, per role
  productPart,  \* index.tsx:34
  posePart,     \* index.tsx:35
  pending,      \* bag of the file-to-part conversions started and not yet resolved
  dom,          \* the output region, the generate and the download controls
  calls,        \* ai.models.generateContent calls awaiting their result
  loads,        \* bag of the Image loads started by handleDownload, not yet settled
  out,          \* what the handler that ran last put out: an alert, a download link
  srv           \* the upload handler's request, position and responses

vars == <<deployment, files, preview, productPart, posePart, pending, dom,
          calls, loads, out, srv>>

browserVars == <<files, preview, productPart, posePart, pending, dom,
                 calls, loads>>

-----------------------------------------------------------------------------
(* Bounds of the model *)

MaxAsync == 2     \* asynchronous operations (conversions, calls, loads) in progress
MaxParts == 2     \* parts in a response of the generative model

-----------------------------------------------------------------------------
(* Values *)

\* null / undefined
None == [null |-> TRUE]

Roles == {"product", "pose"}

\* A File: its content (as the base64 text readAsDataURL produces) and type.
FileA == [data |-> <<"b64A">>, type |-> "image/png"]
FileB == [data |-> <<"b64B1", "b64B2">>, type |-> "image/jpeg"]
Files == {FileA, FileB}

\* The files the user picks from, per file input.
Pickable(role) == IF role = "product" THEN Files ELSE {FileB}

\* promptInput.value and aspectRatioSelect.value
Prompts == {"", "on a beach"}
Ratios == {"1:1", "16:9"}
Formats == {"png", "jpeg"}

\* Parts a response of the generative model may carry.
InlineA == [inlineData |-> [data |-> "imgA", mimeType |-> "image/png"]]
InlineB == [inlineData |-> [data |-> "imgB", mimeType |-> "image/webp"]]
TextA == [text |-> "caption A"]
ResponseParts == {InlineA, InlineB, TextA}

RECURSIVE SeqsUpTo(_, _)
SeqsUpTo(S, n) ==
  IF n = 0 THEN {<<>>}
  ELSE LET shorter == SeqsUpTo(S, n - 1)
       IN shorter \cup {Append(s, x) : s \in shorter, x \in S}

\* What the awaited generateContent call can produce: a response with a part
\* list, a response without candidates[0].content.parts (reading it throws),
\* or a rejection (network failure, non-OK status).
Outcomes ==
  {[kind |-> "response", parts |-> p] : p \in SeqsUpTo(ResponseParts, MaxParts)}
    \cup {[kind |-> "malformed"], [kind |-> "rejected"]}

\* Messages
DefaultPrompt == "A confident-looking model in a brightly lit studio setting."
NoImageMessage ==
  "The model did not return an image. Please try adjusting your prompt or images."
GenericMessage ==
  "An error occurred while generating the image. Please check the console for details."
DownloadMessage == "An error occurred while preparing the image for download."
UploadMessage == "Failed to process upload."

\* Truthiness of a string
Truthy(v) == v # ""

\* The asynchronous operations in progress in the page
InProgress == BagCardinality(pending) + Len(calls) + BagCardinality(loads)

RemoveAt(s, i) == [j \in 1..(Len(s) - 1) |-> IF j < i THEN s[j] ELSE s[j + 1]]

-----------------------------------------------------------------------------
(* index.tsx: helper functions *)

\* FileReader.readAsDataURL: "data:<type>;base64,<content>"
readAsDataURL(file) == <<"data:", file.type, ";base64", ",">> \o file.data

\* String.prototype.split(','): the pieces between the commas.
RECURSIVE split(_)
split(s) ==
  IF s = <<>> THEN <<<<>>>>
  ELSE LET rest == split(Tail(s))
       IN IF Head(s) = "," THEN <<<<>>>> \o rest
          ELSE <<<<Head(s)>> \o Head(rest)>> \o Tail(rest)

\* fileToGenerativePart: the part resolved once the reader's onloadend fires.
fileToGenerativePart(file) ==
  [inlineData |-> [data |-> split(readAsDataURL(file))[2],
                   mimeType |-> file.type]]

\* setLoading without line 103: the generate button is left enabled.
setLoadingSpinnerOnly(d, isLoading) ==
  LET d1 == [d EXCEPT !.spinner = isLoading]
  IN IF isLoading
     THEN [d1 EXCEPT !.imageShown = FALSE,
                     !.text = "",
                     !.placeholderShown = FALSE,
                     !.border = "none",
                     !.controlsHidden = TRUE,
                     !.downloadDisabled = TRUE]
     ELSE d1

\* setLoading without line 106: the result text is left as it was.
setLoadingKeepsText(d, isLoading) ==
  LET d1 == [d EXCEPT !.spinner = isLoading, !.generateDisabled = isLoading]
  IN IF isLoading
     THEN [d1 EXCEPT !.imageShown = FALSE,
                     !.placeholderShown = FALSE,
                     !.border = "none",
                     !.controlsHidden = TRUE,
                     !.downloadDisabled = TRUE]
     ELSE d1

setLoading(d, isLoading) ==
  LET d1 == [d EXCEPT !.spinner = isLoading, !.generateDisabled = isLoading]
  IN IF isLoading
     THEN [d1 EXCEPT !.imageShown = FALSE,
                     !.text = "",
                     !.placeholderShown = FALSE,
                     !.border = "none",
                     !.controlsHidden = TRUE,
                     !.downloadDisabled = TRUE]
     ELSE d1

\* displayError without line 124: the download button is left as it was.
displayErrorKeepsDownload(d, message) ==
  [d EXCEPT !.placeholderText = message,
            !.placeholderColor = "error",
            !.placeholderShown = TRUE,
            !.imageShown = FALSE,
            !.controlsHidden = TRUE]

\* displayError without line 119: the message is not written.
displayErrorNoMessage(d, message) ==
  [d EXCEPT !.placeholderColor = "error",
            !.placeholderShown = TRUE,
            !.imageShown = FALSE,
            !.controlsHidden = TRUE,
            !.downloadDisabled = TRUE]

displayError(d, message) ==
  [d EXCEPT !.placeholderText = message,
            !.placeholderColor = "error",
            !.placeholderShown = TRUE,
            !.imageShown = FALSE,
            !.controlsHidden = TRUE,
            !.downloadDisabled = TRUE]

-----------------------------------------------------------------------------
(* index.tsx: generateImage, the request builder and the response relay *)

TemplateHead == "Generate a photorealistic, high-resolution e-commerce model photograph in a "
TemplateTail == " aspect ratio. - **INSTRUCTIONS:** - The model must be wearing the exact clothing item from the product image. - Generate a complete, new model wearing the product. - The final image must look like a real photograph for a fashion website. - The background should be a clean, minimalist studio setting that complements the product."
PoseSentence == "- The generated model MUST perfectly replicate the shooting angle, camera perspective, pose, body angle, and orientation from the pose reference image."
ContextHead == "- **CONTEXT:** "

\* contents with the pose sentence of line 202 appended unconditionally.
contentsAlwaysPoseSentence(product, pose, promptValue, selectedAspectRatio) ==
  LET userPrompt == IF Truthy(promptValue) THEN promptValue ELSE DefaultPrompt
      parts0 == <<product>>
      text0 == <<TemplateHead, selectedAspectRatio, TemplateTail>>
      text1 == text0 \o <<PoseSentence>>
      parts1 == IF pose # None THEN Append(parts0, pose) ELSE parts0
      instructionText == text1 \o <<ContextHead, userPrompt>>
  IN [parts |-> <<[text |-> instructionText]>> \o parts1]

\* Lines 185 and 192-210: the parts of the request, built from the two slots,
\* promptInput.value and aspectRatioSelect.value.
contents(product, pose, promptValue, selectedAspectRatio) ==
  LET userPrompt == IF Truthy(promptValue) THEN promptValue ELSE DefaultPrompt
      parts0 == <<product>>
      text0 == <<TemplateHead, selectedAspectRatio, TemplateTail>>
      text1 == IF pose # None THEN text0 \o <<PoseSentence>> ELSE text0
      parts1 == IF pose # None THEN Append(parts0, pose) ELSE parts0
      instructionText == text1 \o <<ContextHead, userPrompt>>
  IN [parts |-> <<[text |-> instructionText]>> \o parts1]

\* `data:${mimeType};base64,${data}`
dataURI(inlineData) == <<"data:", inlineData.mimeType, ";base64,", inlineData.data>>

HasInlineData(part) == "inlineData" \in DOMAIN part
HasText(part) == "text" \in DOMAIN part /\ Truthy(part.text)

\* relayPart that keeps the first image: a later inline part is skipped.
relayPartKeepFirst(st, part) ==
  IF HasInlineData(part)
  THEN IF st.generatedImageFound THEN st
       ELSE [d |-> [st.d EXCEPT !.imageSrc = dataURI(part.inlineData),
                                !.imageShown = TRUE,
                                !.placeholderShown = FALSE],
             generatedImageFound |-> TRUE]
  ELSE IF HasText(part)
       THEN [st EXCEPT !.d.text = part.text]
       ELSE st

\* Lines 223-231: the body of the loop over the response's parts.
relayPart(st, part) ==
  IF HasInlineData(part)
  THEN [d |-> [st.d EXCEPT !.imageSrc = dataURI(part.inlineData),
                           !.imageShown = TRUE,
                           !.placeholderShown = FALSE],
        generatedImageFound |-> TRUE]
  ELSE IF HasText(part)
       THEN [st EXCEPT !.d.text = part.text]
       ELSE st

\* relay that leaves the loop after the first part of the response.
relayFirstPartOnly(st, parts) ==
  IF parts = <<>> THEN st ELSE relayPart(st, Head(parts))

\* Lines 221-232: the loop, in the order of the parts.
RECURSIVE relay(_, _)
relay(st, parts) ==
  IF parts = <<>> THEN st ELSE relay(relayPart(st, Head(parts)), Tail(parts))

\* settle with setLoading(false) at the end of the try block instead of in
\* a finally block: the catch path leaves the page loading.
settleNoFinally(d, outcome) ==
  IF outcome.kind = "response"
  THEN LET st == relay([d |-> d, generatedImageFound |-> FALSE], outcome.parts)
       IN setLoading(IF st.generatedImageFound
                     THEN [st.d EXCEPT !.controlsHidden = FALSE,
                                       !.downloadDisabled = FALSE]
                     ELSE displayError(st.d, NoImageMessage),
                     FALSE)
  ELSE displayError(d, GenericMessage)

\* settle that takes a response with text and no image for a success.
settleTextIsSuccess(d, outcome) ==
  LET handled ==
        IF outcome.kind = "response"
        THEN LET st == relay([d |-> d, generatedImageFound |-> FALSE], outcome.parts)
             IN IF st.generatedImageFound \/ st.d.text # ""
                THEN [st.d EXCEPT !.controlsHidden = FALSE,
                                  !.downloadDisabled = FALSE]
                ELSE displayError(st.d, NoImageMessage)
        ELSE displayError(d, GenericMessage)
  IN setLoading(handled, FALSE)

\* Lines 221-246: what generateImage does once the awaited call has settled.
settle(d, outcome) ==
  LET handled ==
        IF outcome.kind = "response"
        THEN LET st == relay([d |-> d, generatedImageFound |-> FALSE], outcome.parts)
             IN IF st.generatedImageFound
                THEN [st.d EXCEPT !.controlsHidden = FALSE,
                                  !.downloadDisabled = FALSE]
                ELSE displayError(st.d, NoImageMessage)
        ELSE displayError(d, GenericMessage)
  IN setLoading(handled, FALSE)

-----------------------------------------------------------------------------
(* index.tsx: handleDownload *)

endsWith(s, token) == s # <<>> /\ s[Len(s)] = token

\* The pixels an image source decodes to (line 174, img.src), row by row:
\* "transparent" or an opaque colour.  Its length is naturalWidth times
\* naturalHeight.
decode(src) ==
  IF src[Len(src)] = InlineA.inlineData.data
  THEN <<"transparent", "red", "transparent", "blue">>
  ELSE <<"green", "transparent">>

\* Lines 147-148: sizing a canvas clears it to transparent.
sized(img) == [i \in 1..Len(img) |-> "transparent"]

\* Lines 153-154: fillRect over the whole canvas with fillStyle white.
fillRect(canvas) == [i \in 1..Len(canvas) |-> "white"]

\* Line 157: drawImage composites the image over what the canvas holds.
drawImage(canvas, img) ==
  [i \in 1..Len(canvas) |-> IF img[i] = "transparent" THEN canvas[i] ELSE img[i]]

\* Line 163: canvas.toDataURL.  PNG keeps transparency; JPEG has no alpha
\* channel and a transparent pixel is encoded as black.
toDataURL(canvas, mimeType) ==
  [type |-> mimeType,
   pixels |-> IF mimeType = <<"image/", "jpeg">>
              THEN [i \in 1..Len(canvas) |->
                      IF canvas[i] = "transparent" THEN "black" ELSE canvas[i]]
              ELSE canvas]

\* onloadLink without the white fill of lines 152-155.
onloadLinkNoFill(load) ==
  LET format == load.format
      mimeType == <<"image/", format>>
      filename == <<"generated-model.", format>>
      img == decode(load.src)
      canvas == drawImage(sized(img), img)
  IN [download |-> filename, href |-> toDataURL(canvas, mimeType)]

\* Lines 137-167: the canvas after img.onload and the link that is clicked.
onloadLink(load) ==
  LET format == load.format
      mimeType == <<"image/", format>>
      filename == <<"generated-model.", format>>
      img == decode(load.src)
      canvas0 == sized(img)
      canvas1 == IF format = "jpeg" THEN fillRect(canvas0) ELSE canvas0
      canvas2 == drawImage(canvas1, img)
  IN [download |-> filename, href |-> toDataURL(canvas2, mimeType)]

-----------------------------------------------------------------------------
(* The page before any event.  index.html is not part of the sources; the   *)
(* initial page is the idle state of the presentation state machine:        *)
(* placeholders shown, no image, download hidden and disabled.              *)

InitialDom ==
  [spinner |-> FALSE,            \* loadingSpinner.style.display = 'block'
   generateDisabled |-> FALSE,   \* generateButton.disabled
   imageShown |-> FALSE,         \* outputImage.style.display = 'block'
   imageSrc |-> <<"#">>,         \* outputImage.src
   text |-> "",                  \* outputText.textContent
   placeholderShown |-> TRUE,    \* outputPlaceholder.style.display = 'block'
   placeholderText |-> "Your generated image will appear here.",
   placeholderColor |-> "default",
   border |-> "dashed",          \* outputContainer.style.border
   controlsHidden |-> TRUE,      \* downloadControls has class controls-hidden
   downloadDisabled |-> TRUE]    \* downloadButton.disabled

InitialPreview ==
  [r \in Roles |-> [src |-> "#", shown |-> FALSE, placeholderShown |-> TRUE]]

\* The upload handler before a request: no request, nothing sent.
SrvIdle ==
  [pc |-> "idle", method |-> "", body |-> None, parts |-> <<>>, contents |-> None,
   responses |-> <<>>, parsed |-> FALSE, called |-> FALSE, uncaught |-> FALSE]

Init ==
  /\ deployment \in {"direct", "relayed"}
  /\ files = [r \in Roles |-> None]
  /\ preview = InitialPreview
  /\ productPart = None
  /\ posePart = None
  /\ pending = EmptyBag
  /\ dom = InitialDom
  /\ calls = <<>>
  /\ loads = EmptyBag
  /\ out = None
  /\ srv = SrvIdle

-----------------------------------------------------------------------------
(* index.tsx: the event handlers *)

\* partSetter of line 251 / 252
partSetter(role, part) ==
  /\ productPart' = IF role = "product" THEN part ELSE productPart
  /\ posePart' = IF role = "pose" THEN part ELSE posePart

\* Lines 77-85: the change event of a file input whose selection was cleared.
FileCleared(role) ==
  /\ deployment = "direct"
  /\ files[role] # None
  /\ files' = [files EXCEPT ![role] = None]
  /\ partSetter(role, None)
  /\ preview' = [preview EXCEPT ![role] =
                   [src |-> "#", shown |-> FALSE, placeholderShown |-> TRUE]]
  /\ out' = None
  /\ UNCHANGED <<deployment, pending, dom, calls, loads, srv>>

\* Lines 77-94, up to the await: the change event of a file input with a file.
\* The preview is updated and the conversion is started; the slot is written
\* only when the conversion resolves.
FileSelected(role, file) ==
  /\ deployment = "direct"
  /\ files[role] # file
  /\ InProgress < MaxAsync
  /\ files' = [files EXCEPT ![role] = file]
  /\ preview' = [preview EXCEPT ![role] =
                   [src |-> file, shown |-> TRUE, placeholderShown |-> FALSE]]
  /\ pending' = pending (+) SetToBag({[role |-> role, file |-> file]})
  /\ out' = None
  /\ UNCHANGED <<deployment, productPart, posePart, dom, calls, loads, srv>>

\* ConversionDone as it would be if the request held the slot itself and not
\* the part that was in it at the click: the resolved part also replaces the
\* part of that role in every request in flight.
ConversionDoneRewritesCalls(c) ==
  /\ deployment = "direct"
  /\ BagIn(c, pending)
  /\ partSetter(c.role, fileToGenerativePart(c.file))
  /\ pending' = pending (-) SetToBag({c})
  /\ out' = None
  /\ calls' = [k \in 1..Len(calls) |->
                 LET at == IF c.role = "product" THEN 2 ELSE 3
                 IN IF at <= Len(calls[k].parts)
                    THEN [calls[k] EXCEPT !.parts[at] = fileToGenerativePart(c.file)]
                    ELSE calls[k]]
  /\ UNCHANGED <<deployment, files, preview, dom, loads, srv>>

\* Lines 53 and 94: a reader's onloadend fires, the awaited promise resolves
\* and the handler resumes with partSetter.  Readers finish in any order.
ConversionDone(c) ==
  /\ deployment = "direct"
  /\ BagIn(c, pending)
  /\ partSetter(c.role, fileToGenerativePart(c.file))
  /\ pending' = pending (-) SetToBag({c})
  /\ out' = None
  /\ UNCHANGED <<deployment, files, preview, dom, calls, loads, srv>>

\* Lines 179-219, up to the await: a click on the generate button.  A
\* disabled button receives no click.
generateImage(promptValue, selectedAspectRatio) ==
  /\ deployment = "direct"
  /\ ~dom.generateDisabled
  /\ IF productPart = None
     THEN /\ out' = [alert |-> "Please upload a product image."]
          /\ UNCHANGED <<dom, calls>>
     ELSE /\ InProgress < MaxAsync
          /\ dom' = displayError(setLoading(dom, TRUE), "")
          /\ calls' = Append(calls,
                             contents(productPart, posePart, promptValue,
                                      selectedAspectRatio))
          /\ out' = None
  /\ UNCHANGED <<deployment, files, preview, productPart, posePart, pending,
                 loads, srv>>

\* Lines 219-246: the awaited call settles and generateImage runs to its end.
generateSettled(i, outcome) ==
  /\ deployment = "direct"
  /\ i \in 1..Len(calls)
  /\ dom' = settle(dom, outcome)
  /\ calls' = RemoveAt(calls, i)
  /\ out' = None
  /\ UNCHANGED <<deployment, files, preview, productPart, posePart, pending,
                 loads, srv>>

\* Lines 131-175: a click on the download button.
handleDownload(format) ==
  /\ deployment = "direct"
  /\ ~dom.downloadDisabled
  /\ IF dom.imageSrc = <<>> \/ endsWith(dom.imageSrc, "#")
     THEN /\ out' = None
          /\ UNCHANGED loads
     ELSE /\ InProgress < MaxAsync
          /\ loads' = loads (+) SetToBag({[src |-> dom.imageSrc, format |-> format]})
          /\ out' = None
  /\ UNCHANGED <<deployment, files, preview, productPart, posePart, pending,
                 dom, calls, srv>>

\* Lines 146-167: img.onload
imgOnload(load) ==
  /\ deployment = "direct"
  /\ BagIn(load, loads)
  /\ loads' = loads (-) SetToBag({load})
  /\ out' = [link |-> onloadLink(load)]
  /\ UNCHANGED <<deployment, files, preview, productPart, posePart, pending,
                 dom, calls, srv>>

\* img.onerror that only logs (line 170) and does not call displayError.
imgOnerrorSilent(load) ==
  /\ deployment = "direct"
  /\ BagIn(load, loads)
  /\ loads' = loads (-) SetToBag({load})
  /\ out' = None
  /\ UNCHANGED <<deployment, files, preview, productPart, posePart, pending,
                 dom, calls, srv>>

\* Lines 169-172: img.onerror
imgOnerror(load) ==
  /\ deployment = "direct"
  /\ BagIn(load, loads)
  /\ dom' = displayError(dom, DownloadMessage)
  /\ loads' = loads (-) SetToBag({load})
  /\ out' = None
  /\ UNCHANGED <<deployment, files, preview, productPart, posePart, pending,
                 calls, srv>>

-----------------------------------------------------------------------------
(* api/upload.js: the upload handler (lines 1-104) *)

Methods == {"GET", "POST"}

\* A record over the keys of `keys` that are present (value # None).
Present(keys, value) ==
  LET ks == {k \in keys : value[k] # None}
  IN [k \in ks |-> <<value[k]>>]

\* The multipart bodies: unparseable, or a form whose files and fields may
\* each be missing.  formidable gives every file and field as an array.
Forms ==
  {[files |-> Present({"productFile", "poseFile"},
                      [productFile |-> pf, poseFile |-> qf]),
    fields |-> Present({"userPrompt", "selectedAspectRatio"},
                       [userPrompt |-> up, selectedAspectRatio |-> ar])] :
     pf \in Pickable("product") \cup {None}, qf \in Pickable("pose") \cup {None},
     up \in {[s |-> p] : p \in Prompts} \cup {None},
     ar \in {[s |-> r] : r \in Ratios} \cup {None}}

Bodies == {[parseError |-> TRUE]} \cup Forms

\* res.status(status).json(body)
respond(s, status, body) ==
  [s EXCEPT !.responses = Append(@, [status |-> status, body |-> body]),
            !.pc = "done"]

\* Lines 19-33: the part the conversion resolves to.
uploadFileToGenerativePart(file) ==
  [inlineData |-> [data |-> split(readAsDataURL(file))[2],
                   mimeType |-> file.type]]

\* Lines 57-72: the parts of the request, from the converted files (pose is
\* None without a pose file) and the two fields.
uploadContents(product, pose, userPrompt, selectedAspectRatio) ==
  LET parts0 == <<product>>
      text0 == <<TemplateHead, selectedAspectRatio, TemplateTail>>
      text1 == IF pose # None THEN text0 \o <<PoseSentence>> ELSE text0
      parts1 == IF pose # None THEN Append(parts0, pose) ELSE parts0
      instructionText == text1 \o <<ContextHead, userPrompt>>
  IN [parts |-> <<[text |-> instructionText]>> \o parts1]

\* Lines 85-90: the body of the loop over the response's parts.
uploadRelayPart(st, part) ==
  IF HasInlineData(part)
  THEN [st EXCEPT !.generatedImage = dataURI(part.inlineData)]
  ELSE IF HasText(part)
       THEN [st EXCEPT !.generatedText = part.text]
       ELSE st

\* Lines 82-91
RECURSIVE uploadRelay(_, _)
uploadRelay(st, parts) ==
  IF parts = <<>> THEN st
  ELSE uploadRelay(uploadRelayPart(st, Head(parts)), Tail(parts))

\* Lines 82-102: the handler once the awaited call has settled.
uploadSettle(s, outcome) ==
  IF outcome.kind = "response"
  THEN LET st == uploadRelay([generatedImage |-> None, generatedText |-> None],
                             outcome.parts)
       IN IF st.generatedImage # None
          THEN respond(s, 200, [image |-> st.generatedImage,
                                text |-> st.generatedText])
          ELSE respond(s, 500, [error |-> NoImageMessage])
  ELSE respond(s, 500, [error |-> GenericMessage])

\* uploadRequest without the method check of lines 36-38.
uploadRequestAnyMethod(method, body) ==
  /\ deployment = "relayed"
  /\ srv.pc \in {"idle", "done"}
  /\ srv' = [SrvIdle EXCEPT !.method = method, !.body = body, !.pc = "parsing"]
  /\ UNCHANGED <<deployment, browserVars, out>>

\* Lines 35-42: a request arrives.  Requests share no state, so the model
\* handles them one after the other.
uploadRequest(method, body) ==
  /\ deployment = "relayed"
  /\ srv.pc \in {"idle", "done"}
  /\ srv' = IF method # "POST"
            THEN respond([SrvIdle EXCEPT !.method = method, !.body = body],
                         405, [message |-> "Method Not Allowed"])
            ELSE [SrvIdle EXCEPT !.method = method, !.body = body,
                                 !.pc = "parsing"]
  /\ UNCHANGED <<deployment, browserVars, out>>

\* Lines 42-55: the callback of form.parse, up to the first await.  Lines
\* 49-52 read the files and fields outside the try block: a missing one
\* throws in the async callback, which nothing catches.
uploadParsed ==
  /\ deployment = "relayed"
  /\ srv.pc = "parsing"
  /\ LET s == [srv EXCEPT !.parsed = TRUE]
         form == srv.body
     IN srv' =
          IF "parseError" \in DOMAIN srv.body
          THEN respond(s, 500, [error |-> UploadMessage])
          ELSE IF \/ "productFile" \notin DOMAIN form.files
                  \/ "userPrompt" \notin DOMAIN form.fields
                  \/ "selectedAspectRatio" \notin DOMAIN form.fields
               THEN [s EXCEPT !.uncaught = TRUE, !.pc = "done"]
               ELSE [s EXCEPT !.pc = "convertProduct"]
  /\ UNCHANGED <<deployment, browserVars, out>>

\* Lines 55-74: the conversion of the product file resolves; without a pose
\* file the request is built and the call is made.
uploadCall(s, pose) ==
  [s EXCEPT !.contents = uploadContents(s.parts[1], pose,
                                        s.body.fields.userPrompt[1].s,
                                        s.body.fields.selectedAspectRatio[1].s),
            !.called = TRUE,
            !.pc = "calling"]

uploadProductConverted ==
  /\ deployment = "relayed"
  /\ srv.pc = "convertProduct"
  /\ LET s == [srv EXCEPT !.parts =
                 <<uploadFileToGenerativePart(srv.body.files.productFile[1])>>]
     IN srv' = IF "poseFile" \in DOMAIN srv.body.files
               THEN [s EXCEPT !.pc = "convertPose"]
               ELSE uploadCall(s, None)
  /\ UNCHANGED <<deployment, browserVars, out>>

\* Lines 64-74: the conversion of the pose file resolves.
uploadPoseConverted ==
  /\ deployment = "relayed"
  /\ srv.pc = "convertPose"
  /\ srv' = uploadCall(srv, uploadFileToGenerativePart(srv.body.files.poseFile[1]))
  /\ UNCHANGED <<deployment, browserVars, out>>

\* Lines 20-25 and 99-102: a conversion rejects (reader.onerror, or no
\* FileReader in the runtime) and the catch block answers.
uploadConversionFailed ==
  /\ deployment = "relayed"
  /\ srv.pc \in {"convertProduct", "convertPose"}
  /\ srv' = respond(srv, 500, [error |-> GenericMessage])
  /\ UNCHANGED <<deployment, browserVars, out>>

\* Lines 74-102: the awaited call settles.
uploadSettled(outcome) ==
  /\ deployment = "relayed"
  /\ srv.pc = "calling"
  /\ srv' = uploadSettle(srv, outcome)
  /\ UNCHANGED <<deployment, browserVars, out>>

Next ==
  \/ \E role \in Roles : FileCleared(role)
  \/ \E role \in Roles : \E file \in Pickable(role) : FileSelected(role, file)
  \/ \E c \in BagToSet(pending) : ConversionDone(c)
  \/ \E p \in Prompts, r \in Ratios : generateImage(p, r)
  \/ \E i \in 1..MaxAsync, o \in Outcomes : generateSettled(i, o)
  \/ \E f \in Formats : handleDownload(f)
  \/ \E load \in BagToSet(loads) : imgOnload(load)
  \/ \E load \in BagToSet(loads) : imgOnerror(load)
  \/ \E m \in Methods, b \in Bodies : uploadRequest(m, b)
  \/ uploadParsed
  \/ uploadProductConverted
  \/ uploadPoseConverted
  \/ uploadConversionFailed
  \/ \E o \in Outcomes : uploadSettled(o)

Spec == Init /\ [][Next]_vars

-----------------------------------------------------------------------------
(* Properties *)

Direct == deployment = "direct"
Relayed == deployment = "relayed"

ResponseOutcomes == {o \in Outcomes : o.kind = "response"}
FailureOutcomes == {o \in Outcomes : o.kind # "response"}

InlineIndexes(parts) == {i \in 1..Len(parts) : HasInlineData(parts[i])}
FirstInline(parts) ==
  parts[CHOOSE i \in InlineIndexes(parts) : \A j \in InlineIndexes(parts) : i <= j]
LastInline(parts) ==
  parts[CHOOSE i \in InlineIndexes(parts) : \A j \in InlineIndexes(parts) : j <= i]

\* The data URI of an inline part, written out: data:<mimeType>;base64,<data>
UriOf(part) == <<"data:", part.inlineData.mimeType, ";base64,", part.inlineData.data>>

\* The part a file converts to: its base64 content and its declared type.
PartOf(file) == [inlineData |-> [data |-> file.data, mimeType |-> file.type]]

\* The response the upload handler sent last.
Sent(s) == s.responses[Len(s.responses)]

\* C1: at most one generation call is in flight, and the generate button is
\* disabled as long as one is.
C1_OneCallInFlight ==
  Direct => /\ Len(calls) <= 1
            /\ (calls # <<>> => dom.generateDisabled)

C1_Witness == Direct /\ Len(calls) = 1 /\ dom.generateDisabled /\ dom.spinner

LatestSelection(role) ==
  IF files[role] = None THEN None ELSE PartOf(files[role])

\* C2 (as claimed): once no conversion is pending, each slot holds the part
\* of the file selected for its role, or is empty if the selection is empty.
C2_SlotsHoldLatestSelection ==
  (Direct /\ pending = EmptyBag) =>
    /\ productPart = LatestSelection("product")
    /\ posePart = LatestSelection("pose")

\* C3: whichever way the call in flight settles (an image, no image, a
\* failure), generateImage ends with the spinner hidden and the generate
\* button enabled.
C3_SettledLeavesLoading ==
  (Direct /\ calls # <<>>) =>
    \A o \in Outcomes :
      LET d == settle(dom, o) IN ~d.spinner /\ ~d.generateDisabled

C3_Witness ==
  /\ Direct /\ calls = <<>>
  /\ dom.placeholderText = GenericMessage
  /\ ~dom.spinner /\ ~dom.generateDisabled

HasPoseSentence(text) == \E i \in 1..Len(text) : text[i] = PoseSentence

RequestShape(c, product, pose) ==
  /\ DOMAIN c.parts[1] = {"text"}
  /\ IF pose = None
     THEN c.parts = <<c.parts[1], product>>
     ELSE c.parts = <<c.parts[1], product, pose>>
  /\ HasPoseSentence(c.parts[1].text) <=> (Len(c.parts) = 3)

InFlightShape(c) ==
  /\ Len(c.parts) \in {2, 3}
  /\ DOMAIN c.parts[1] = {"text"}
  /\ \A i \in 2..Len(c.parts) : HasInlineData(c.parts[i])
  /\ HasPoseSentence(c.parts[1].text) <=> (Len(c.parts) = 3)

\* C4: a request is [instruction text, product image] without a pose image
\* and [instruction text, product image, pose image] with one, and the
\* instruction text has the pose sentence exactly when the pose image is in
\* the list; in generateImage (from the slots) and in the upload handler
\* (from the uploaded files).
C4_RequestParts ==
  /\ (Direct /\ productPart # None) =>
       \A p \in Prompts, r \in Ratios :
         RequestShape(contents(productPart, posePart, p, r), productPart, posePart)
  /\ Direct => \A i \in 1..Len(calls) : InFlightShape(calls[i])
  /\ (Relayed /\ srv.contents # None) =>
       RequestShape(srv.contents,
                    PartOf(srv.body.files.productFile[1]),
                    IF "poseFile" \in DOMAIN srv.body.files
                    THEN PartOf(srv.body.files.poseFile[1]) ELSE None)

C4_Witness ==
  Direct /\ Len(calls) = 1 /\ Len(calls[1].parts) = 3 /\ posePart # None

C6_NoImageIsFailure ==
  /\ (Direct /\ calls # <<>>) =>
       \A o \in ResponseOutcomes :
         InlineIndexes(o.parts) = {} =>
           LET d == settle(dom, o)
           IN /\ d.placeholderShown /\ d.placeholderText = NoImageMessage
              /\ ~d.imageShown
              /\ d.downloadDisabled /\ d.controlsHidden
  /\ (Relayed /\ srv.pc = "calling") =>
       \A o \in ResponseOutcomes :
         InlineIndexes(o.parts) = {} =>
           LET r == Sent(uploadSettle(srv, o))
           IN /\ r.status = 500
              /\ DOMAIN r.body = {"error"}
              /\ Len(uploadSettle(srv, o).responses) = 1

C6_Witness ==
  /\ Direct /\ calls = <<>>
  /\ dom.placeholderShown /\ dom.placeholderText = NoImageMessage
  /\ dom.text = TextA.text
  /\ ~dom.imageShown /\ dom.downloadDisabled

\* C7 (as claimed): a request the upload handler has finished with got
\* exactly one response, of status 405, 500 or 200, and nothing was thrown
\* uncaught.
C7_ExactlyOneResponse ==
  (Relayed /\ srv.pc = "done") =>
    /\ Len(srv.responses) = 1
    /\ srv.responses[1].status \in {405, 500, 200}
    /\ ~srv.uncaught

\* C8 (as claimed): a click on generate while no product file is selected
\* alerts, makes no call and leaves the output region as it is.
C8_NoSelectionBlocksGenerate ==
  [][\A p \in Prompts, r \in Ratios :
       (generateImage(p, r) /\ files["product"] = None) =>
         /\ out' = [alert |-> "Please upload a product image."]
         /\ calls' = calls
         /\ dom' = dom]_vars

\* C9: between handlers, an enabled download button means the success
\* state: a generated image is displayed, the spinner is hidden, no error
\* message is displayed and no call is in flight.
C9_DownloadOnlyInSuccess ==
  (Direct /\ ~dom.downloadDisabled) =>
    /\ dom.imageShown
    /\ dom.imageSrc \in {UriOf(InlineA), UriOf(InlineB)}
    /\ ~dom.controlsHidden
    /\ ~dom.spinner
    /\ ~dom.placeholderShown
    /\ calls = <<>>

C9_Witness ==
  /\ Direct /\ ~dom.downloadDisabled /\ dom.imageShown
  /\ loads # EmptyBag

\* C10: when the call in flight fails, generateImage ends in the error
\* state: the generic message shown, the image hidden, download hidden and
\* disabled; also when an image of an earlier generation is still the
\* image element's source.
C10_FailureEndsInError ==
  (Direct /\ calls # <<>>) =>
    \A o \in FailureOutcomes :
      LET d == settle(dom, o)
      IN /\ d.placeholderShown /\ d.placeholderText = GenericMessage
         /\ ~d.imageShown
         /\ d.downloadDisabled /\ d.controlsHidden
         /\ ~d.spinner

C10_Witness ==
  /\ Direct /\ calls = <<>>
  /\ dom.placeholderShown /\ dom.placeholderText = GenericMessage
  /\ dom.imageSrc # <<"#">>
  /\ ~dom.imageShown /\ dom.downloadDisabled

\* The user prompt carried by the context sentence that ends an instruction
\* text, if the text ends with one.
EndsWithContext(text, prompt) ==
  /\ Len(text) >= 2
  /\ text[Len(text) - 1] = ContextHead
  /\ text[Len(text)] = prompt

CarriedPrompt(prompt) == IF prompt = "" THEN DefaultPrompt ELSE prompt

\* C11 (as claimed): the context sentence of every request carries the
\* default prompt when the user prompt is empty and the user prompt itself
\* otherwise, in generateImage and in the upload handler.
C11_DefaultPromptWhenEmpty ==
  /\ (Direct /\ productPart # None) =>
       \A p \in Prompts, r \in Ratios :
         EndsWithContext(contents(productPart, posePart, p, r).parts[1].text,
                         CarriedPrompt(p))
  /\ (Relayed /\ srv.contents # None) =>
       EndsWithContext(srv.contents.parts[1].text,
                       CarriedPrompt(srv.body.fields.userPrompt[1].s))

\* C12: a non-POST request is answered 405 and is neither parsed nor passed
\* to the external model; a POST whose body fails to parse is answered 500
\* with the generic upload error and is not passed to the external model.
C12_RejectedBeforeTheModel ==
  /\ (Relayed /\ srv.method \in Methods \ {"POST"}) =>
       /\ srv.pc = "done"
       /\ srv.responses = <<[status |-> 405,
                             body |-> [message |-> "Method Not Allowed"]]>>
       /\ ~srv.parsed /\ ~srv.called /\ srv.contents = None
  /\ (Relayed /\ srv.method = "POST" /\ "parseError" \in DOMAIN srv.body) =>
       /\ srv.pc \in {"parsing", "done"}
       /\ srv.pc = "done" =>
            srv.responses = <<[status |-> 500, body |-> [error |-> UploadMessage]]>>
       /\ ~srv.called /\ srv.contents = None

C12_Witness ==
  /\ Relayed /\ srv.method = "POST" /\ "parseError" \in DOMAIN srv.body
  /\ srv.pc = "done" /\ srv.parsed
  /\ Sent(srv).status = 500

\* C13: when the image of a requested download fails to load, the handler
\* leaves the error presentation (the download error message shown, the
\* result image hidden, the download controls hidden and disabled) and
\* clicks no download link.
C13_LoadFailureShowsError ==
  [][\A load \in BagToSet(loads) :
       imgOnerror(load) =>
         /\ dom'.placeholderShown
         /\ dom'.placeholderText = DownloadMessage
         /\ dom'.placeholderColor = "error"
         /\ ~dom'.imageShown
         /\ dom'.controlsHidden /\ dom'.downloadDisabled
         /\ "link" \notin DOMAIN out'
         /\ CopiesIn(load, loads') + 1 = CopiesIn(load, loads)]_vars

C13_Witness ==
  /\ Direct /\ loads = EmptyBag /\ calls = <<>>
  /\ dom.placeholderShown /\ dom.placeholderText = DownloadMessage
  /\ dom.imageSrc # <<"#">> /\ ~dom.imageShown
  /\ dom.controlsHidden /\ dom.downloadDisabled
  /\ out = None

\* C14: the link img.onload clicks is named generated-model.<format>; with
\* format jpeg every pixel that is transparent in the image is white in the
\* exported image and every other pixel is the image's; with format png the
\* exported image is the image, transparent pixels included.
C14_JpegOnWhite ==
  [][\A load \in BagToSet(loads) :
       imgOnload(load) =>
         LET img == decode(load.src)
             exported == out'.link.href
         IN /\ out'.link.download = <<"generated-model.", load.format>>
            /\ exported.type = <<"image/", load.format>>
            /\ Len(exported.pixels) = Len(img)
            /\ \A i \in 1..Len(img) :
                 exported.pixels[i] =
                   IF img[i] = "transparent" /\ load.format = "jpeg"
                   THEN "white" ELSE img[i]]_vars

C14_Witness ==
  /\ Direct /\ "link" \in DOMAIN out
  /\ out.link.download = <<"generated-model.", "jpeg">>
  /\ \E i \in 1..Len(out.link.href.pixels) : out.link.href.pixels[i] = "white"

\* The responses made of exactly one inline-data part and exactly one text
\* part, as the pair of the two orders.
InlineParts == {p \in ResponseParts : HasInlineData(p)}
TextParts == {p \in ResponseParts : ~HasInlineData(p) /\ HasText(p)}

\* C15: for a response with exactly one inline-data part and exactly one text
\* part the result image is that inline part and the result text is that text
\* part, in the page and in the handler's answer, whichever part comes first.
C15_RelayIgnoresOrder ==
  \A i \in InlineParts, t \in TextParts :
    LET imageFirst == [kind |-> "response", parts |-> <<i, t>>]
        textFirst == [kind |-> "response", parts |-> <<t, i>>]
    IN /\ {imageFirst, textFirst} \subseteq Outcomes
       /\ (Direct /\ calls # <<>>) =>
            /\ settle(dom, imageFirst) = settle(dom, textFirst)
            /\ settle(dom, textFirst).imageSrc = UriOf(i)
            /\ settle(dom, textFirst).imageShown
            /\ settle(dom, textFirst).text = t.text
       /\ (Relayed /\ srv.pc = "calling") =>
            /\ uploadSettle(srv, imageFirst) = uploadSettle(srv, textFirst)
            /\ Sent(uploadSettle(srv, textFirst)) =
                 [status |-> 200, body |-> [image |-> UriOf(i), text |-> t.text]]

C15_Witness ==
  /\ Direct /\ calls = <<>>
  /\ dom.imageShown /\ dom.imageSrc = UriOf(InlineA) /\ dom.text = TextA.text

\* C16: a generate click that finds a product part leaves the page loading
\* with nothing of the previous outcome on display: the spinner is shown and
\* the button disabled, the image is hidden, the result text is empty, the
\* placeholder carries no message, and download is hidden and disabled.
C16_ClickClearsDisplay ==
  [][\A p \in Prompts, r \in Ratios :
       (productPart # None /\ generateImage(p, r)) =>
         /\ dom'.spinner /\ dom'.generateDisabled
         /\ ~dom'.imageShown
         /\ dom'.text = ""
         /\ dom'.placeholderText = ""
         /\ dom'.controlsHidden /\ dom'.downloadDisabled
         /\ Len(calls') = Len(calls) + 1]_vars

C16_Witness ==
  /\ Direct /\ Len(calls) = 1 /\ out = None
  /\ dom.spinner /\ dom.generateDisabled
  /\ dom.imageSrc # <<"#">> /\ ~dom.imageShown
  /\ dom.text = "" /\ dom.placeholderText = ""
  /\ dom.controlsHidden /\ dom.downloadDisabled

\* The slot of a role, and the slot of the other role.
Slot(role) == IF role = "product" THEN productPart ELSE posePart
Other(role) == IF role = "product" THEN "pose" ELSE "product"

\* C17: the click puts in flight the request built from the slots as they are
\* at the click; while a request is in flight a file selection, a clear or a
\* conversion completion leaves the requests in flight and the output area as
\* they are (a clear empties its slot, a completion writes its slot, the other
\* slot is kept); and the step that completes the request finds it the only
\* one in flight, removes it and shows what its outcome relays, whatever the
\* slots hold by then.
C17_RequestFixedAtClick ==
  [][/\ Len(calls') > Len(calls) =>
          \A p \in Prompts, r \in Ratios :
            (productPart # None /\ generateImage(p, r)) =>
              calls' = Append(calls, contents(productPart, posePart, p, r))
     /\ (calls # <<>> /\ files' # files) =>
          /\ \A role \in Roles :
               FileCleared(role) =>
                 /\ calls' = calls /\ dom' = dom /\ loads' = loads
                 /\ Slot(role)' = None
                 /\ Slot(Other(role))' = Slot(Other(role))
          /\ \A role \in Roles : \A file \in Pickable(role) :
               FileSelected(role, file) =>
                 /\ calls' = calls /\ dom' = dom /\ loads' = loads
                 /\ productPart' = productPart /\ posePart' = posePart
     /\ (calls # <<>> /\ pending' # pending /\ files' = files) =>
          \A c \in BagToSet(pending) :
            ConversionDone(c) =>
              /\ calls' = calls /\ dom' = dom /\ loads' = loads
              /\ Slot(c.role)' = fileToGenerativePart(c.file)
              /\ Slot(Other(c.role))' = Slot(Other(c.role))
     /\ Len(calls') < Len(calls) =>
          /\ Len(calls) = 1 /\ calls' = <<>>
          /\ productPart' = productPart /\ posePart' = posePart
          /\ \E o \in Outcomes :
               /\ generateSettled(1, o)
               /\ (o.kind = "response" /\ InlineIndexes(o.parts) # {}) =>
                    dom'.imageShown /\ dom'.imageSrc = UriOf(LastInline(o.parts))
               /\ (o.kind # "response" \/ InlineIndexes(o.parts) = {}) =>
                    ~dom'.imageShown /\ dom'.placeholderShown]_vars

\* A request is in flight whose product part is no longer what the product
\* slot holds.
C17_Witness ==
  /\ Direct /\ Len(calls) = 1
  /\ calls[1].parts[2] # productPart
  /\ dom.spinner

====
